---- MODULE Spec2Model ----
(***************************************************************************)
(* AskDB (src/app.py): a Streamlit script that is re-executed from top to  *)
(* bottom on every widget interaction.  The session state (chat_history,   *)
(* db) survives between script runs; the script's own names (response,     *)
(* sql_query, ...) are bound afresh in each run.                            *)
(*                                                                         *)
(* Scores are floats; they are modelled as records [cls, v] where cls is   *)
(* "fin", "nan", "inf" or "neginf" and v is the value in hundredths.       *)
(***************************************************************************)
EXTENDS Integers, Sequences, FiniteSets, TLC

\* Number of script runs (widget interactions) explored.
MaxRuns == 3

VARIABLES
    session_keys,        \* keys present in st.session_state ("chat_history", "db")
    chat_history,        \* st.session_state.chat_history
    db,                  \* st.session_state.db
    api_key,             \* whether GROQ_API_KEY is set in the environment
    pc,                  \* position of the script run
    runs,                \* script runs started so far
    event,               \* the widget interaction that triggered this run
    Port,                \* st.session_state["Port"]
    Database,            \* st.session_state["Database"]
    user_query,          \* value of st.chat_input in this run
    sql_query,           \* get_response local
    db_response,         \* get_response local
    evaluation,          \* what the scoring model call produced
    hallucination_score, \* get_response local
    response,            \* script-level name bound at 179 or 182
    exc,                 \* exception in flight inside the try of 175-183
    escaped,             \* exception that left the script run uncaught
    calls,               \* external calls made in this run, in order
    rendered,            \* st.success / st.error output of this run
    connect_exc,         \* exception init_database raised inside the Connect handler
    run_start            \* session state when this run reached the sidebar

vars == <<session_keys, chat_history, db, api_key, pc, runs, event, Port,
          Database, user_query, sql_query, db_response, evaluation,
          hallucination_score, response, exc, escaped, calls, rendered,
          connect_exc, run_start>>

----------------------------------------------------------------------------
\* Values

None == <<"None">>
Unbound == <<"<unbound>">>
NoDb == "<unset>"
NoText == "<unset>"

Fin(n) == [cls |-> "fin", v |-> n]
NaN == [cls |-> "nan", v |-> 0]
PosInf == [cls |-> "inf", v |-> 0]
NegInf == [cls |-> "neginf", v |-> 0]
NoScore == [cls |-> "unset", v |-> 0]

\* Thresholds of the qualitative label and the fallback score, in hundredths.
LowBand == 30
HighBand == 70
DefaultScore == 50

AIMessage(content) == [role |-> "AI", content |-> content]
HumanMessage(content) == [role |-> "Human", content |-> content]

Greeting == AIMessage(<<"Hello! I'm a SQL assistant. Ask me anything about your database.">>)

\* Chat input values: no submission, or the submitted text as a sequence of characters.
ChatInputs == {<<>>, <<" ">>, <<" ", " ">>, <<"q">>, <<" ", "q">>}

\* Contents of the Port field.
PortFields == {<<>>, <<"3">>, <<"3", "3">>, <<"3", "x">>}

\* Contents of the Database field.
DatabaseFields == {"student_db", "other_db"}

\* What the scoring model call can produce: an exception, or a text that denotes a
\* finite number, nan, inf, -inf, or no number at all.
EvalFinite == {-5, 0, 29, 30, 69, 70, 100, 105}
EvalContents == {Fin(n) : n \in EvalFinite} \cup {NaN, PosInf, NegInf, [cls |-> "text", v |-> 0]}
EvalRaised == [cls |-> "raised", v |-> 0]
Evaluations == EvalContents \cup {EvalRaised}

SqlTexts == {"SELECT ..."}
DbResults == {"[(1,)]"}

----------------------------------------------------------------------------
\* Pure functions

Whitespace == {" "}

RECURSIVE LStrip(_)
LStrip(s) == IF Len(s) > 0 /\ Head(s) \in Whitespace THEN LStrip(Tail(s)) ELSE s

RECURSIVE RStrip(_)
RStrip(s) ==
    IF Len(s) > 0 /\ s[Len(s)] \in Whitespace THEN RStrip(SubSeq(s, 1, Len(s) - 1)) ELSE s

\* str.strip()
Strip(s) == RStrip(LStrip(s))

HasQuery_nostrip(q) == q # None /\ Len(q) > 0

\* line 169: user_query and user_query.strip()
HasQuery(q) == q # None /\ Len(q) > 0 /\ Len(Strip(q)) > 0

Digits == {"0", "1", "2", "3", "4", "5", "6", "7", "8", "9"}

\* line 150: int(st.session_state["Port"]) raises ValueError unless the text is a number
IntRaises(s) == ~(Len(s) > 0 /\ \A i \in 1..Len(s) : s[i] \in Digits)

\* line 21: the handle for a connection string
SQLDatabase_from_uri(database) == "SQLDatabase(mysql+mysqlconnector://.../" \o database \o ")"

\* lines 146-152 with 16-23: the exception init_database(...) ends with, "none" if it returns
init_database_raises(port, driver_ok) ==
    IF IntRaises(port) THEN "ValueError"
    ELSE IF ~driver_ok THEN "ConnectionError"
    ELSE "none"

ConnectCatches_narrow(e) == e = "ConnectionError"

\* line 155: except Exception
ConnectCatches(e) == e \in {"ValueError", "ConnectionError"}

ConnectSession_clears(keys, d, database, raised) ==
    IF raised = "none"
    THEN [keys |-> keys \cup {"db"}, db |-> SQLDatabase_from_uri(database)]
    ELSE [keys |-> keys \ {"db"}, db |-> NoDb]

\* lines 146-156: the session's db entry after the Connect handler
ConnectSession(keys, d, database, raised) ==
    IF raised = "none"
    THEN [keys |-> keys \cup {"db"}, db |-> SQLDatabase_from_uri(database)]
    ELSE [keys |-> keys, db |-> d]

SeedChatHistory_always(keys, h) == <<Greeting>>

\* lines 125-128
SeedChatHistory(keys, h) == IF "chat_history" \notin keys THEN <<Greeting>> ELSE h

\* Python's a < b on floats: false whenever one side is nan
Lt(a, b) ==
    /\ a.cls # "nan"
    /\ b.cls # "nan"
    /\ \/ a.cls = "neginf" /\ b.cls # "neginf"
       \/ b.cls = "inf" /\ a.cls # "inf"
       \/ a.cls = "fin" /\ b.cls = "fin" /\ a.v < b.v

\* Python's max(a, b): the first argument unless the second is greater
PyMax(a, b) == IF Lt(a, b) THEN b ELSE a

\* Python's min(a, b): the first argument unless the second is smaller
PyMin(a, b) == IF Lt(b, a) THEN b ELSE a

\* line 85: float(text) raises ValueError unless the text denotes a float
FloatRaises(content) == content.cls \notin {"fin", "nan", "inf", "neginf"}

\* lines 55-90
calculate_hallucination_score(key, ev) ==
    IF ~key THEN Fin(DefaultScore)
    ELSE IF ev = EvalRaised THEN Fin(DefaultScore)
    ELSE IF FloatRaises(ev) THEN Fin(DefaultScore)
    ELSE PyMin(PyMax(ev, Fin(0)), Fin(100))

\* format spec .2f of a clamped score
TwoDigits(n) == IF n < 10 THEN "0" \o ToString(n) ELSE ToString(n)
Format2f(s) ==
    IF s.cls = "nan" THEN "nan"
    ELSE IF s.cls = "inf" THEN "inf"
    ELSE IF s.cls = "neginf" THEN "-inf"
    ELSE IF s.v < 0 THEN "-" \o ToString((0 - s.v) \div 100) \o "." \o TwoDigits((0 - s.v) % 100)
    ELSE ToString(s.v \div 100) \o "." \o TwoDigits(s.v % 100)

Label_inclusive(s) ==
    IF Lt(s, Fin(LowBand)) \/ s = Fin(LowBand) THEN "(Low - Highly Reliable)"
    ELSE IF Lt(s, Fin(HighBand)) \/ s = Fin(HighBand) THEN "(Medium - Some Interpretation)"
    ELSE "(High - Potential Inaccuracies)"

\* lines 115-120
Label(s) ==
    IF Lt(s, Fin(LowBand)) THEN "(Low - Highly Reliable)"
    ELSE IF Lt(s, Fin(HighBand)) THEN "(Medium - Some Interpretation)"
    ELSE "(High - Potential Inaccuracies)"

\* lines 113-122
formatted_response(result, s) ==
    <<result, "\n\n---\n\n*Hallucination Score*: ", Format2f(s), "/1.0 ", Label(s)>>

\* line 182
ErrorResponse(e) == <<"An error occurred: ", e>>

get_sql_chain_raises_never(key) == "none"

\* lines 44-46
get_sql_chain_raises(key) == IF ~key THEN "EnvironmentError" ELSE "none"

db_run_no_throw(ok, result) ==
    IF ok THEN [raised |-> "none", value |-> result]
    ELSE [raised |-> "none", value |-> "Error: DatabaseError"]

\* line 106: db.run raises on a failing statement
db_run(ok, result) ==
    IF ok THEN [raised |-> "none", value |-> result]
    ELSE [raised |-> "DatabaseError", value |-> NoText]

AfterStep_retry(step, raised) ==
    IF raised = "none"
    THEN (IF step = "sql_invoke" THEN "db_run" ELSE "score")
    ELSE IF Len(calls) < 2 THEN step ELSE "except"

\* lines 99-110: an exception leaves get_response for the except at 181
AfterStep(step, raised) ==
    IF raised = "none"
    THEN (IF step = "sql_invoke" THEN "db_run" ELSE "score")
    ELSE "except"

Call(name, on, ok) == [call |-> name, on |-> on, ok |-> ok]

----------------------------------------------------------------------------
\* The script

Init ==
    /\ session_keys = {}
    /\ chat_history = <<>>
    /\ db = NoDb
    /\ api_key \in BOOLEAN
    /\ pc = "idle"
    /\ runs = 0
    /\ event = "none"
    /\ Port = <<"3">>
    /\ Database = "student_db"
    /\ user_query = None
    /\ sql_query = NoText
    /\ db_response = NoText
    /\ evaluation = NoScore
    /\ hallucination_score = NoScore
    /\ response = Unbound
    /\ exc = "none"
    /\ escaped = "none"
    /\ calls = <<>>
    /\ rendered = <<>>
    /\ connect_exc = "none"
    /\ run_start = [chat_history |-> <<>>, session_keys |-> {}, db |-> NoDb]

\* A fresh script run: every script-level name is unbound again.
FreshRun ==
    /\ runs' = runs + 1
    /\ pc' = "init"
    /\ sql_query' = NoText
    /\ db_response' = NoText
    /\ evaluation' = NoScore
    /\ hallucination_score' = NoScore
    /\ response' = Unbound
    /\ exc' = "none"
    /\ escaped' = "none"
    /\ calls' = <<>>
    /\ rendered' = <<>>
    /\ connect_exc' = "none"
    /\ UNCHANGED <<session_keys, chat_history, db, api_key, run_start>>

\* The user presses Connect, after editing the sidebar fields.
PressConnect ==
    /\ pc = "idle"
    /\ runs < MaxRuns
    /\ \E p \in PortFields, d \in DatabaseFields : Port' = p /\ Database' = d
    /\ event' = "connect"
    /\ user_query' = None
    /\ FreshRun

\* The user submits the chat input.
SubmitChat ==
    /\ pc = "idle"
    /\ runs < MaxRuns
    /\ \E q \in ChatInputs : user_query' = q
    /\ event' = "chat"
    /\ UNCHANGED <<Port, Database>>
    /\ FreshRun

\* Any other interaction re-runs the script with no button pressed and no chat input.
OtherRerun ==
    /\ pc = "idle"
    /\ runs < MaxRuns
    /\ event' = "other"
    /\ user_query' = None
    /\ UNCHANGED <<Port, Database>>
    /\ FreshRun

\* lines 125-128
InitChatHistory ==
    /\ pc = "init"
    /\ chat_history' = SeedChatHistory(session_keys, chat_history)
    /\ session_keys' = session_keys \cup {"chat_history"}
    /\ pc' = "sidebar"
    /\ run_start' = [chat_history |-> chat_history', session_keys |-> session_keys', db |-> db]
    /\ UNCHANGED <<db, api_key, runs, event, Port, Database, user_query, sql_query,
                   db_response, evaluation, hallucination_score, response, exc,
                   escaped, calls, rendered, connect_exc>>

\* lines 135-156
Connect ==
    /\ pc = "sidebar"
    /\ IF event # "connect"
       THEN /\ pc' = "display"
            /\ UNCHANGED <<session_keys, db, rendered, escaped, connect_exc>>
       ELSE \E driver_ok \in BOOLEAN :
            LET raised == init_database_raises(Port, driver_ok)
                after == ConnectSession(session_keys, db, Database, raised)
            IN /\ connect_exc' = raised
               /\ session_keys' = after.keys
               /\ db' = after.db
               /\ IF raised = "none"
                  THEN /\ rendered' = Append(rendered, "success: Connected to database!")
                       /\ escaped' = escaped
                       /\ pc' = "display"
                  ELSE IF ConnectCatches(raised)
                  THEN /\ rendered' = Append(rendered,
                              "error: Failed to connect to the database: " \o raised)
                       /\ escaped' = escaped
                       /\ pc' = "display"
                  ELSE /\ rendered' = rendered
                       /\ escaped' = raised
                       /\ pc' = "idle"
    /\ UNCHANGED <<chat_history, api_key, runs, event, Port, Database, user_query,
                   sql_query, db_response, evaluation, hallucination_score, response,
                   exc, calls, run_start>>

\* lines 159-165: the transcript is rendered, nothing is changed
DisplayMessages ==
    /\ pc = "display"
    /\ pc' = "input"
    /\ UNCHANGED <<session_keys, chat_history, db, api_key, runs, event, Port,
                   Database, user_query, sql_query, db_response, evaluation,
                   hallucination_score, response, exc, escaped, calls, rendered,
                   connect_exc, run_start>>

\* lines 168-172
HandleInput ==
    /\ pc = "input"
    /\ IF HasQuery(user_query)
       THEN /\ chat_history' = Append(chat_history, HumanMessage(user_query))
            /\ pc' = "answer"
       ELSE /\ chat_history' = chat_history
            /\ pc' = "idle"
    /\ UNCHANGED <<session_keys, db, api_key, runs, event, Port, Database,
                   user_query, sql_query, db_response, evaluation,
                   hallucination_score, response, exc, escaped, calls, rendered,
                   connect_exc, run_start>>

\* lines 176-177 and 96 (get_sql_chain, 44-46)
Answer ==
    /\ pc = "answer"
    /\ IF "db" \notin session_keys
       THEN /\ rendered' = Append(rendered, "error: Please connect to the database first!")
            /\ exc' = exc
            /\ pc' = "append"
       ELSE /\ rendered' = rendered
            /\ exc' = get_sql_chain_raises(api_key)
            /\ pc' = IF exc' = "none" THEN "sql_invoke" ELSE "except"
    /\ UNCHANGED <<session_keys, chat_history, db, api_key, runs, event, Port,
                   Database, user_query, sql_query, db_response, evaluation,
                   hallucination_score, response, escaped, calls, connect_exc, run_start>>

\* lines 99-102: the chain reads the schema and asks the model for a SQL statement
SqlInvoke ==
    /\ pc = "sql_invoke"
    /\ \E ok \in BOOLEAN, text \in SqlTexts :
        LET raised == IF ok THEN "none" ELSE "ModelError" IN
        /\ calls' = Append(calls, Call("llm_sql", "groq", ok))
        /\ sql_query' = IF ok THEN text ELSE sql_query
        /\ exc' = raised
        /\ pc' = AfterStep("sql_invoke", raised)
    /\ UNCHANGED <<session_keys, chat_history, db, api_key, runs, event, Port,
                   Database, user_query, db_response, evaluation,
                   hallucination_score, response, escaped, rendered, connect_exc, run_start>>

\* line 106
DbRun ==
    /\ pc = "db_run"
    /\ \E ok \in BOOLEAN, result \in DbResults :
        LET r == db_run(ok, result) IN
        /\ calls' = Append(calls, Call("db_run", db, ok))
        /\ db_response' = r.value
        /\ exc' = r.raised
        /\ pc' = AfterStep("db_run", r.raised)
    /\ UNCHANGED <<session_keys, chat_history, db, api_key, runs, event, Port,
                   Database, user_query, sql_query, evaluation,
                   hallucination_score, response, escaped, rendered, connect_exc, run_start>>

\* line 110 (calculate_hallucination_score, 55-90)
Score ==
    /\ pc = "score"
    /\ \E ev \in Evaluations :
        /\ evaluation' = IF api_key THEN ev ELSE NoScore
        /\ calls' = IF api_key
                    THEN Append(calls, Call("llm_score", "groq", ev # EvalRaised))
                    ELSE calls
        /\ hallucination_score' = calculate_hallucination_score(api_key, ev)
    /\ pc' = "format"
    /\ UNCHANGED <<session_keys, chat_history, db, api_key, runs, event, Port,
                   Database, user_query, sql_query, db_response, response, exc,
                   escaped, rendered, connect_exc, run_start>>

\* lines 113-122 and 179-180
Format ==
    /\ pc = "format"
    /\ response' = formatted_response(db_response, hallucination_score)
    /\ pc' = "append"
    /\ UNCHANGED <<session_keys, chat_history, db, api_key, runs, event, Port,
                   Database, user_query, sql_query, db_response, evaluation,
                   hallucination_score, exc, escaped, calls, rendered, connect_exc, run_start>>

\* lines 181-183
Except ==
    /\ pc = "except"
    /\ response' = ErrorResponse(exc)
    /\ pc' = "append"
    /\ UNCHANGED <<session_keys, chat_history, db, api_key, runs, event, Port,
                   Database, user_query, sql_query, db_response, evaluation,
                   hallucination_score, exc, escaped, calls, rendered, connect_exc, run_start>>

\* line 185: reading a name that was never bound raises NameError, outside the try
AppendReply ==
    /\ pc = "append"
    /\ IF response = Unbound
       THEN /\ escaped' = "NameError"
            /\ chat_history' = chat_history
       ELSE /\ escaped' = escaped
            /\ chat_history' = Append(chat_history, AIMessage(response))
    /\ pc' = "idle"
    /\ UNCHANGED <<session_keys, db, api_key, runs, event, Port, Database,
                   user_query, sql_query, db_response, evaluation,
                   hallucination_score, response, exc, calls, rendered, connect_exc, run_start>>

Next ==
    \/ PressConnect
    \/ SubmitChat
    \/ OtherRerun
    \/ InitChatHistory
    \/ Connect
    \/ DisplayMessages
    \/ HandleInput
    \/ Answer
    \/ SqlInvoke
    \/ DbRun
    \/ Score
    \/ Format
    \/ Except
    \/ AppendReply

Spec == Init /\ [][Next]_vars

----------------------------------------------------------------------------
\* Properties

IsPrefix(s, t) == Len(s) <= Len(t) /\ SubSeq(t, 1, Len(s)) = s

Last(s) == s[Len(s)]

CallNames == [i \in 1..Len(calls) |-> calls[i].call]

StepOrder == <<"llm_sql", "db_run", "llm_score">>

InUnitInterval(s) == s.cls = "fin" /\ 0 <= s.v /\ s.v <= 100

\* Absent, empty or whitespace-only chat input.
Blank(q) == q = None \/ \A i \in 1..Len(q) : q[i] = " "

\* The script run triggered by a non-blank question has ended.
QuestionTurnEnded == pc = "idle" /\ event = "chat" /\ ~Blank(user_query)

IsErrorReply(m) ==
    m.role = "AI" /\ Len(m.content) = 2 /\ m.content[1] = "An error occurred: "

IsScoredReply(m) ==
    m.role = "AI" /\ Len(m.content) = 5 /\ m.content[4] = "/1.0 "

Labels ==
    {"(Low - Highly Reliable)", "(Medium - Some Interpretation)",
     "(High - Potential Inaccuracies)"}

LabelCount(content) == Cardinality({i \in 1..Len(content) : content[i] \in Labels})

\* A call of SQL generation or SQL execution failed in this run.
GenOrExecFailed ==
    \E i \in 1..Len(calls) : calls[i].call \in {"llm_sql", "db_run"} /\ ~calls[i].ok

\* C1: whatever the scoring step met, the value calculate_hallucination_score
\* returned lies in the closed interval [0,1].
C1_ScoreInUnitInterval ==
    hallucination_score # NoScore => InUnitInterval(hallucination_score)

\* C2: with a database connected and GROQ_API_KEY unset, a question turn ends
\* without an escaped exception and its reply carries the default score 0.50.
C2_MissingKeyDefaultScore ==
    (QuestionTurnEnded /\ "db" \in session_keys /\ ~api_key) =>
        /\ escaped = "none"
        /\ IsScoredReply(Last(chat_history))
        /\ Last(chat_history).content[3] = "0.50"

\* C2 as amended: with a database connected and GROQ_API_KEY unset, a question
\* turn ends without an escaped exception, makes no model call and no database
\* call, computes no score, and its reply is the inline error string built from
\* the EnvironmentError of get_sql_chain.
C2_MissingKeyInlineError ==
    (QuestionTurnEnded /\ "db" \in session_keys /\ ~api_key) =>
        /\ escaped = "none"
        /\ calls = <<>>
        /\ hallucination_score = NoScore
        /\ chat_history = run_start.chat_history \o
               <<HumanMessage(user_query),
                 AIMessage(<<"An error occurred: ", "EnvironmentError">>)>>

C2_Witness ==
    /\ QuestionTurnEnded
    /\ "db" \in session_keys
    /\ ~api_key
    /\ IsErrorReply(Last(chat_history))

\* C3: every step leaves the old transcript a prefix of the new one, and once
\* the transcript is seeded its first entry is the greeting.
C3_AppendOnly ==
    [][/\ IsPrefix(chat_history, chat_history')
       /\ Len(chat_history') > 0 => chat_history'[1] = Greeting]_vars

C3_Witness ==
    /\ pc = "idle"
    /\ runs = 3
    /\ Len(chat_history) = 5
    /\ IsScoredReply(chat_history[3])
    /\ IsErrorReply(chat_history[5])

\* C4: when init_database raises inside the Connect handler (ValueError from the
\* Port field or ConnectionError from the driver), nothing escapes the script
\* run, the failure is rendered as one error string, and the run goes on to the
\* chat section.
C4_ConnectFailureCaught ==
    /\ [](connect_exc # "none" =>
            /\ escaped = "none"
            /\ rendered = <<"error: Failed to connect to the database: " \o connect_exc>>
            /\ pc \in {"display", "input", "idle"})
    /\ [][(pc = "sidebar" /\ connect_exc' # "none") => pc' = "display"]_vars

C4_Witness == connect_exc = "ValueError" /\ pc = "input" /\ Len(rendered) = 1

\* C5: every non-blank question ends its turn with no escaped exception and with
\* exactly two entries appended: the question and one assistant reply.
C5_TwoEntriesPerQuestion ==
    QuestionTurnEnded =>
        /\ escaped = "none"
        /\ Len(chat_history) = Len(run_start.chat_history) + 2
        /\ IsPrefix(run_start.chat_history, chat_history)
        /\ chat_history[Len(chat_history) - 1] = HumanMessage(user_query)
        /\ Last(chat_history).role = "AI"

\* C6: with a database connected, a turn in which SQL generation or SQL execution
\* failed ends with nothing escaped, and the assistant entry it appended is the
\* inline error string; it holds no result text and no score, and no score was
\* computed.
C6_GenExecFailureInlineError ==
    (QuestionTurnEnded /\ "db" \in session_keys /\ (GenOrExecFailed \/ ~api_key)) =>
        /\ escaped = "none"
        /\ Len(chat_history) = Len(run_start.chat_history) + 2
        /\ IsErrorReply(Last(chat_history))
        /\ Last(chat_history).content[2] \in {"EnvironmentError", "ModelError", "DatabaseError"}
        /\ \A i \in 1..Len(Last(chat_history).content) :
               Last(chat_history).content[i] \notin DbResults \cup Labels
        /\ hallucination_score = NoScore

C6_Witness ==
    /\ QuestionTurnEnded
    /\ Len(calls) = 2
    /\ ~calls[2].ok
    /\ IsErrorReply(Last(chat_history))

\* C7: the external calls of a turn follow the order generate, execute, score,
\* each at most once, and once any of them failed no later step of the turn
\* runs: no formatted reply is produced.
C7_AnyFailureStopsTurn ==
    /\ IsPrefix(CallNames, StepOrder)
    /\ (\E i \in 1..Len(calls) : ~calls[i].ok) =>
           /\ pc # "format"
           /\ (response # Unbound => Len(response) = 2)

\* C7 as amended: the external calls of a turn follow the order generate,
\* execute, score, each at most once; the database runs only after generation
\* returned a statement, the scoring call is made only after execution returned
\* a result, formatting happens only after a score was computed, and once
\* generation or execution failed no later step runs.  A failure inside the
\* scoring step is absorbed there and formatting still runs.
C7_StepOrder ==
    /\ IsPrefix(CallNames, StepOrder)
    /\ Len(calls) >= 2 => (calls[1].ok /\ sql_query \in SqlTexts)
    /\ Len(calls) >= 3 => (calls[2].ok /\ db_response \in DbResults)
    /\ pc = "db_run" => (Len(calls) = 1 /\ calls[1].ok)
    /\ pc = "score" => (Len(calls) = 2 /\ calls[2].ok)
    /\ (pc = "format" \/ (response # Unbound /\ Len(response) = 5)) =>
           (hallucination_score # NoScore /\ db_response \in DbResults)
    /\ GenOrExecFailed =>
           /\ ~Last(calls).ok
           /\ Last(calls).call # "llm_score"
           /\ pc \in {"except", "append", "idle"}
           /\ hallucination_score = NoScore
           /\ (response # Unbound => Len(response) = 2)
    /\ (Len(calls) = 3 /\ ~calls[3].ok /\ pc \in {"append", "idle"}) =>
           Len(response) = 5

C7_Witness ==
    /\ pc = "idle"
    /\ Len(calls) = 3
    /\ ~calls[3].ok
    /\ IsScoredReply(Last(chat_history))

\* C8: a reply built from a score s in [0,1] holds the raw database result, the
\* score with two decimals and exactly one label: Low when s < 0.3, Medium when
\* 0.3 <= s < 0.7, High when s >= 0.7; when the scoring call failed or its output
\* was no number, the reply holds the result, 0.50 and the Medium label.
C8_LabelBands ==
    (pc \in {"append", "idle"} /\ hallucination_score # NoScore
        /\ InUnitInterval(hallucination_score)) =>
        /\ Len(response) = 5
        /\ response[1] = db_response
        /\ db_response \in DbResults
        /\ response[3] = Format2f(hallucination_score)
        /\ LabelCount(response) = 1
        /\ hallucination_score.v < 30 => response[5] = "(Low - Highly Reliable)"
        /\ (30 <= hallucination_score.v /\ hallucination_score.v < 70) =>
               response[5] = "(Medium - Some Interpretation)"
        /\ hallucination_score.v >= 70 => response[5] = "(High - Potential Inaccuracies)"
        /\ evaluation.cls \in {"raised", "text"} =>
               /\ response[3] = "0.50"
               /\ response[5] = "(Medium - Some Interpretation)"
        /\ pc = "idle" => Last(chat_history) = AIMessage(response)

C8_Witness ==
    /\ pc = "idle"
    /\ evaluation = EvalRaised
    /\ hallucination_score = Fin(50)
    /\ Last(chat_history).content[3] = "0.50"

\* C9: a run whose chat input is absent, empty or whitespace-only leaves the
\* transcript as it was and makes no model call and no database call; a run with
\* no database handle in the session makes no such call either.
C9_BlankInputNoEffect ==
    /\ (pc # "init" /\ Blank(user_query)) =>
           (chat_history = run_start.chat_history /\ calls = <<>>)
    /\ "db" \notin session_keys => calls = <<>>

C9_Witness ==
    /\ pc = "idle"
    /\ user_query = <<" ", " ">>
    /\ "db" \in session_keys
    /\ api_key

\* C10: a run triggered by Connect leaves the transcript as it was; when the
\* connection failed the session's db entry is as it was; and a question's SQL
\* runs on the handle the session holds.
C10_ConnectFrame ==
    /\ (pc # "init" /\ event = "connect") => chat_history = run_start.chat_history
    /\ connect_exc # "none" =>
           (db = run_start.db /\ session_keys = run_start.session_keys)
    /\ \A i \in 1..Len(calls) :
           calls[i].call = "db_run" =>
               (calls[i].on = run_start.db /\ calls[i].on # NoDb)

C10_Witness ==
    /\ pc = "idle"
    /\ connect_exc = "ConnectionError"
    /\ "db" \in session_keys
    /\ db = SQLDatabase_from_uri("other_db")

====
